---- MODULE Spec2Model ----
(***************************************************************************)
(* Resumable chunked upload, its storage backends (local filesystem and    *)
(* object store) and the asynchronous processing of uploaded media         *)
(* (backend/app/providers/storage, backend/app/workers/media_worker.py).   *)
(*                                                                         *)
(* Scheduling: one asyncio event loop.  A handler runs without             *)
(* interruption between two points where it really suspends.  The storage  *)
(* providers' methods are coroutines whose bodies only make blocking       *)
(* calls, so each provider call is one atomic step; the simulated          *)
(* processing task suspends at its asyncio.sleep between two metadata      *)
(* writes.                                                                 *)
(***************************************************************************)
EXTENDS Integers, Sequences, FiniteSets, TLC

(***************************************************************************)
(* Bounds of the model.                                                    *)
(***************************************************************************)
MaxIndex == 1
\* chunk indices sent by clients are 0..MaxIndex, declared totals 1..MaxIndex+1
MaxTasks == 1
\* background tasks of one media id that are alive at the same time
MaxRuns == 2
\* MediaWorker.process_media calls made for the asset
MaxImports == 1
\* import jobs registered
MaxTextLen == 4
\* characters of a text given to _split_into_chunks
MaxChars == 3
\* max_chars given to _split_into_chunks is 1..MaxChars
MaxAssets == 2
\* media assets created by create_media_asset

(***************************************************************************)
(* Program constants.                                                      *)
(***************************************************************************)
total_steps == 5
MAX_DIRECT_UPLOAD_SIZE == 5242880

MediaIds == {"m1"}
Backends == {"local", "gcs"}
Indices == 0..MaxIndex
Totals == 1..(MaxIndex + 1)
\* the bytes a client may put in chunk i: index 0 is sent with either of two
\* contents of different length, every other index with one content of its own
ChunkData(i) == IF i = 0 THEN {<<1>>, <<2, 3>>} ELSE {<<i + 3>>}
FileSizes == {MAX_DIRECT_UPLOAD_SIZE - 1, MAX_DIRECT_UPLOAD_SIZE, MAX_DIRECT_UPLOAD_SIZE + 1}
NoBlob == <<-1>>
Users == {"u1", "u2"}   \* current_user["uid"] of the authenticated callers
Owner == "u1"           \* the user the upload targets of MediaIds are issued to
NoChunks == [i \in {} |-> 0]

VARIABLES
    backend,     \* settings.STORAGE_PROVIDER: which provider get_storage_provider returns
    metadata,    \* the metadata record (sidecar json) of each media id
    chunkFiles,  \* the chunk store: bytes kept per (media id, chunk index)
    blobs,       \* the finalized object of each media id
    tasks,       \* the _process_media tasks alive per media id: each one's next step
    taskRoom,    \* how many _process_media tasks of one id the model lets live at once
    latest,      \* history: the bytes of the last upload_chunk that returned, per index
    outOfOrder,  \* history: some chunk arrived after a chunk of a higher index
    overwritten, \* history: some stored index was sent again with other bytes
    lastCall,    \* history: the last operation, its response, and its file_size argument
    caller,      \* history: current_user["uid"] of the last endpoint call
    twin,        \* the storage of the other provider, given the same calls
    pending,     \* the call the other provider has still to be given
    media,       \* the media_assets row the worker is given
    storedFile,  \* the bytes at the row's storage_path
    transcripts, \* the rows of the transcripts table
    runs,        \* the MediaWorker.process_media calls: position and locals
    import_jobs, \* imports.py import_jobs: the job record of each import id
    IMPORT_SPLIT_ENABLED, \* settings.IMPORT_SPLIT_ENABLED: the page split feature flag
    import_answer, \* history: what the last get_import_result answered
    split_text,  \* _split_into_chunks: the text given
    max_chars,   \* _split_into_chunks: the maximum chunk size given
    text_chunks, \* _split_into_chunks: the list returned
    returned,    \* _split_into_chunks has returned
    PUBSUB_ENABLED, \* settings.PUBSUB_ENABLED
    assets,      \* the media_assets rows create_media_asset has added
    published    \* the messages handed to pubsub_client.publish_message, in order

storageVars ==
    <<backend, metadata, chunkFiles, blobs, tasks, taskRoom, latest, outOfOrder, overwritten,
      lastCall, caller, twin, pending>>
workerVars == <<media, storedFile, transcripts, runs>>
importVars == <<import_jobs, IMPORT_SPLIT_ENABLED, import_answer>>
splitVars == <<split_text, max_chars, text_chunks, returned>>
pubsubVars == <<PUBSUB_ENABLED, assets, published>>
vars == <<storageVars, workerVars, importVars, splitVars, pubsubVars>>

(***************************************************************************)
(* Metadata records.  A key the json file does not hold is modelled by a   *)
(* default: status "none", progress -1, file_size -1, no chunks,           *)
(* total_chunks 0, upload_progress <<0, 0>>.  upload_progress and progress *)
(* are fractions: upload_progress <<n, d>> is n / d, progress p is         *)
(* p / total_steps.                                                        *)
(***************************************************************************)
NoMetadata ==
    [present |-> FALSE, status |-> "none", progress |-> -1, file_size |-> -1,
     chunks |-> NoChunks, total_chunks |-> 0,
     upload_progress |-> <<0, 0>>, file_path |-> FALSE, result |-> FALSE]

\* _load_metadata: {} when the file does not exist, else its content
_load_metadata(m) == IF metadata[m].present THEN metadata[m] ELSE NoMetadata

\* _save_metadata: the record replaces the file's content
_save_metadata(m, md) == [metadata EXCEPT ![m] = [md EXCEPT !.present = TRUE]]

\* d[k] = v on a dict
DictSet(d, k, v) == [i \in DOMAIN d \cup {k} |-> IF i = k THEN v ELSE d[i]]

\* a bug: the chunk file is opened in append mode
WriteChunkFile_append(files, k, data) ==
    DictSet(files, k, IF k \in DOMAIN files THEN files[k] \o data ELSE data)

\* open(chunk_path, 'wb'); f.write(chunk_content)
WriteChunkFile(files, k, data) == DictSet(files, k, data)

\* a bug: the entry is put into an empty map, as if a stale record had been loaded
AddChunkEntry_stale(md, k, size) == DictSet(NoChunks, k, size)

\* metadata["chunks"][str(chunk_index)] = {"size": ..., "path": ..., ...}: the
\* entry's path is the chunk file of the same index, its size the bytes' length
AddChunkEntry(md, k, size) == DictSet(md.chunks, k, size)

\* uploaded_chunks / total_chunks
UploadProgress(chunks, total) == <<Cardinality(DOMAIN chunks), total>>

\* a bug: the chunks are joined from the last index down
RECURSIVE ConcatChunks_descending(_, _)
ConcatChunks_descending(files, n) ==
    IF n = 0 THEN <<>> ELSE files[n - 1] \o ConcatChunks_descending(files, n - 1)

\* for i in range(n): outfile.write(chunk i)
RECURSIVE ConcatChunks(_, _)
ConcatChunks(files, n) ==
    IF n = 0 THEN <<>> ELSE ConcatChunks(files, n - 1) \o files[n - 1]

\* the first i in range(total) that the chunk map does not hold, total if none
RECURSIVE FirstMissing(_, _, _)
FirstMissing(chunks, i, total) ==
    IF i >= total \/ i \notin DOMAIN chunks THEN i
    ELSE FirstMissing(chunks, i + 1, total)

\* What a call answers.  The echo of the call's own arguments (chunk_index,
\* received_bytes) is left out; status, progress, result and
\* chunk_upload_enabled are the fields the callers read.
Response(op, m, st, prog, res, chunked) ==
    [op |-> op, media_id |-> m, status |-> st, progress |-> prog,
     result |-> res, chunk_upload_enabled |-> chunked, file_size |-> -1]

NoTasks == [pc \in 1..(total_steps + 1) |-> 0]
NumTasks(m) == tasks[m][1] + tasks[m][2] + tasks[m][3] + tasks[m][4] + tasks[m][5] + tasks[m][6]

\* What one provider keeps, and the call records of the lockstep comparison.
InitialStore(b) ==
    [backend |-> b,
     metadata |-> [m \in MediaIds |-> NoMetadata],
     chunkFiles |-> [m \in MediaIds |-> NoChunks],
     blobs |-> [m \in MediaIds |-> NoBlob],
     tasks |-> [m \in MediaIds |-> NoTasks],
     latest |-> [m \in MediaIds |-> NoChunks],
     outOfOrder |-> [m \in MediaIds |-> FALSE],
     overwritten |-> [m \in MediaIds |-> FALSE],
     lastCall |-> Response("init", "m1", "none", -1, FALSE, FALSE)]
OtherBackend(b) == IF b = "local" THEN "gcs" ELSE "local"
Call(op, m, a, b, d) == [op |-> op, m |-> m, a |-> a, b |-> b, d |-> d, swapped |-> FALSE]
NoCall == Call("none", "m1", 0, 0, <<>>)

StorageInit ==
    /\ backend \in Backends
    /\ metadata = [m \in MediaIds |-> NoMetadata]
    /\ chunkFiles = [m \in MediaIds |-> NoChunks]
    /\ blobs = [m \in MediaIds |-> NoBlob]
    /\ tasks = [m \in MediaIds |-> NoTasks]
    /\ taskRoom = MaxTasks
    /\ latest = [m \in MediaIds |-> NoChunks]
    /\ outOfOrder = [m \in MediaIds |-> FALSE]
    /\ overwritten = [m \in MediaIds |-> FALSE]
    /\ caller = Owner
    /\ twin = InitialStore(OtherBackend(backend))
    /\ pending = NoCall
    /\ lastCall = Response("init", "m1", "none", -1, FALSE, FALSE)

(***************************************************************************)
(* create_upload_url / generate_upload_url.  The endpoint draws a fresh    *)
(* uuid4 as media id, so the id has no record and no chunk yet.            *)
(***************************************************************************)
\* The record of the object-store provider names the final blob ("blob_path")
\* from issuance on; the local record has "filename" then and gets
\* "file_path" in complete_upload.  file_path models either key.
LocationAtIssue == backend = "gcs"

ChunkUploadEnabled_atleast(file_size) == file_size >= MAX_DIRECT_UPLOAD_SIZE
ChunkUploadEnabled(file_size) == file_size > MAX_DIRECT_UPLOAD_SIZE

generate_upload_url(m, file_size) ==
    /\ ~metadata[m].present
    /\ DOMAIN chunkFiles[m] = {}
    /\ blobs[m] = NoBlob
    /\ NumTasks(m) = 0
    /\ metadata' = _save_metadata(m,
            [NoMetadata EXCEPT !.status = "pending", !.progress = 0,
                               !.file_path = LocationAtIssue])
    /\ lastCall' = [Response("generate_upload_url", m, "none", -1, FALSE,
                             ChunkUploadEnabled(file_size))
                        EXCEPT !.file_size = file_size]
    /\ UNCHANGED <<workerVars, importVars, splitVars, pubsubVars>> /\ UNCHANGED <<backend, chunkFiles, blobs, tasks, latest, outOfOrder, overwritten>>

(***************************************************************************)
(* upload_chunk: the chunk file is written, then the metadata record is    *)
(* loaded, given the chunk's entry, total_chunks and upload_progress, and  *)
(* saved.  No argument is validated, here or in the endpoint.              *)
(***************************************************************************)
upload_chunk(m, chunk_index, total_chunks, data) ==
    LET md == _load_metadata(m)
        chunks == AddChunkEntry(md, chunk_index, Len(data))
    IN  /\ chunkFiles' = [chunkFiles EXCEPT ![m] = WriteChunkFile(@, chunk_index, data)]
        /\ metadata' = _save_metadata(m,
               [md EXCEPT !.chunks = chunks,
                          !.total_chunks = total_chunks,
                          !.upload_progress = UploadProgress(chunks, total_chunks)])
        /\ latest' = [latest EXCEPT ![m] =
               [i \in DOMAIN @ \cup {chunk_index} |->
                   IF i = chunk_index THEN data ELSE @[i]]]
        /\ outOfOrder' = [outOfOrder EXCEPT ![m] =
               @ \/ \E j \in DOMAIN md.chunks : j > chunk_index]
        /\ overwritten' = [overwritten EXCEPT ![m] =
               @ \/ (chunk_index \in DOMAIN latest[m] /\ latest[m][chunk_index] # data)]
        /\ lastCall' = Response("upload_chunk", m, "success", -1, FALSE, FALSE)
        /\ UNCHANGED <<workerVars, importVars, splitVars, pubsubVars>> /\ UNCHANGED <<backend, blobs, tasks>>

(***************************************************************************)
(* complete_upload.  total_size is never read and md5_hash is only copied  *)
(* into the record, so neither is modelled.  The local provider opens the  *)
(* final file for writing before it looks for the chunks, the object-store *)
(* provider assembles a temporary file and uploads it at the end.          *)
(***************************************************************************)
\* a bug: only too few chunks are refused
ChunkCountMismatch_fewer(md, total_chunks) == Cardinality(DOMAIN md.chunks) < total_chunks

\* "chunks" not in metadata or len(metadata["chunks"]) != total_chunks
ChunkCountMismatch(md, total_chunks) == Cardinality(DOMAIN md.chunks) # total_chunks

FinalBlobOnMissing(old, files, missing) ==
    IF backend = "local" THEN ConcatChunks(files, missing) ELSE old

\* a bug: a record that is already processing or completed is rejected
complete_upload_once(m, total_chunks) ==
    LET md == _load_metadata(m)
        missing == FirstMissing(md.chunks, 0, total_chunks)
    IN  IF ChunkCountMismatch(md, total_chunks) \/ md.status \in {"processing", "completed"}
        THEN /\ lastCall' = Response("complete_upload", m, "error", 0, FALSE, FALSE)
             /\ UNCHANGED <<workerVars, importVars, splitVars, pubsubVars>> /\ UNCHANGED <<backend, metadata, chunkFiles, blobs, tasks, latest, outOfOrder, overwritten>>
        ELSE IF missing < total_chunks
        THEN /\ blobs' = [blobs EXCEPT ![m] =
                              FinalBlobOnMissing(@, chunkFiles[m], missing)]
             /\ lastCall' = Response("complete_upload", m, "error", 0, FALSE, FALSE)
             /\ UNCHANGED <<workerVars, importVars, splitVars, pubsubVars>> /\ UNCHANGED <<backend, metadata, chunkFiles, tasks, latest, outOfOrder, overwritten>>
        ELSE /\ NumTasks(m) < taskRoom
             /\ blobs' = [blobs EXCEPT ![m] = ConcatChunks(chunkFiles[m], total_chunks)]
             /\ metadata' = _save_metadata(m,
                    [md EXCEPT !.status = "processing", !.progress = 0,
                               !.file_path = TRUE])
             /\ tasks' = [tasks EXCEPT ![m][1] = @ + 1]
             /\ lastCall' = Response("complete_upload", m, "processing", 0, FALSE, FALSE)
             /\ UNCHANGED <<workerVars, importVars, splitVars, pubsubVars>> /\ UNCHANGED <<backend, chunkFiles, latest, outOfOrder, overwritten>>

complete_upload(m, total_chunks) ==
    LET md == _load_metadata(m)
        missing == FirstMissing(md.chunks, 0, total_chunks)
    IN  IF ChunkCountMismatch(md, total_chunks)
        THEN /\ lastCall' = Response("complete_upload", m, "error", 0, FALSE, FALSE)
             /\ UNCHANGED <<workerVars, importVars, splitVars, pubsubVars>> /\ UNCHANGED <<backend, metadata, chunkFiles, blobs, tasks, latest, outOfOrder, overwritten>>
        ELSE IF missing < total_chunks
        THEN /\ blobs' = [blobs EXCEPT ![m] =
                              FinalBlobOnMissing(@, chunkFiles[m], missing)]
             /\ lastCall' = Response("complete_upload", m, "error", 0, FALSE, FALSE)
             /\ UNCHANGED <<workerVars, importVars, splitVars, pubsubVars>> /\ UNCHANGED <<backend, metadata, chunkFiles, tasks, latest, outOfOrder, overwritten>>
        ELSE /\ NumTasks(m) < taskRoom
             /\ blobs' = [blobs EXCEPT ![m] = ConcatChunks(chunkFiles[m], total_chunks)]
             /\ metadata' = _save_metadata(m,
                    [md EXCEPT !.status = "processing", !.progress = 0,
                               !.file_path = TRUE])
             /\ tasks' = [tasks EXCEPT ![m][1] = @ + 1]
             /\ lastCall' = Response("complete_upload", m, "processing", 0, FALSE, FALSE)
             /\ UNCHANGED <<workerVars, importVars, splitVars, pubsubVars>> /\ UNCHANGED <<backend, chunkFiles, latest, outOfOrder, overwritten>>

(***************************************************************************)
(* _process_media: the task created by complete_upload.  Steps 1 to        *)
(* total_steps each load the record, set progress and save it, then sleep; *)
(* the last step loads it, sets completed, progress 1.0 and the result.    *)
(***************************************************************************)
ProgressWrite(md, step) == [md EXCEPT !.progress = step]

\* a bug: the last write forgets the status
CompletionWrite_nostatus(md) == [md EXCEPT !.progress = total_steps, !.result = TRUE]

CompletionWrite(md) ==
    [md EXCEPT !.status = "completed", !.progress = total_steps, !.result = TRUE]

_process_media(m, pc) ==
    /\ tasks[m][pc] > 0
    /\ IF pc <= total_steps
       THEN /\ metadata' = _save_metadata(m, ProgressWrite(_load_metadata(m), pc))
            /\ tasks' = [tasks EXCEPT ![m][pc] = @ - 1, ![m][pc + 1] = @ + 1]
       ELSE /\ metadata' = _save_metadata(m, CompletionWrite(_load_metadata(m)))
            /\ tasks' = [tasks EXCEPT ![m][pc] = @ - 1]
    /\ lastCall' = Response("_process_media", m, "none", -1, FALSE, FALSE)
    /\ UNCHANGED <<workerVars, importVars, splitVars, pubsubVars>> /\ UNCHANGED <<backend, chunkFiles, blobs, latest, outOfOrder, overwritten>>

(***************************************************************************)
(* get_media_status                                                        *)
(***************************************************************************)
get_media_status(m) ==
    LET md == _load_metadata(m)
    IN  /\ lastCall' =
              IF ~md.present
              THEN Response("get_media_status", m, "error", 0, FALSE, FALSE)
              ELSE Response("get_media_status", m,
                            IF md.status = "none" THEN "unknown" ELSE md.status,
                            IF md.progress = -1 THEN 0 ELSE md.progress,
                            md.result, FALSE)
        /\ UNCHANGED <<workerVars, importVars, splitVars, pubsubVars>> /\ UNCHANGED <<backend, metadata, chunkFiles, blobs, tasks, latest, outOfOrder, overwritten>>

(***************************************************************************)
(* delete_file: False when the id has no metadata record.  Otherwise the   *)
(* final file is removed when the record names one (file_path, blob_path), *)
(* the chunks are removed (the local provider removes the chunk directory, *)
(* the object-store provider the chunks the record lists) and the record   *)
(* is removed.  A running _process_media task is not touched.              *)
(***************************************************************************)
Without(d, keys) == [i \in DOMAIN d \ keys |-> d[i]]

DeletedChunks(md, files) == IF backend = "local" THEN DOMAIN files ELSE DOMAIN md.chunks

BlobAfterDelete(md, old) == IF md.file_path THEN NoBlob ELSE old

\* The local provider unlinks the final file if it exists; the object-store
\* provider calls blob.delete() on the named blob without asking whether it
\* exists, which raises NotFound for a blob never uploaded: the handler
\* answers False and neither chunks nor record are removed.
DeleteRaises(md, old) == backend = "gcs" /\ md.file_path /\ old = NoBlob

delete_file(m) ==
    LET md == _load_metadata(m)
    IN  IF ~md.present \/ DeleteRaises(md, blobs[m])
        THEN /\ lastCall' = Response("delete_file", m, "false", -1, FALSE, FALSE)
             /\ UNCHANGED <<workerVars, importVars, splitVars, pubsubVars>> /\ UNCHANGED <<backend, metadata, chunkFiles, blobs, tasks, latest, outOfOrder, overwritten>>
        ELSE /\ blobs' = [blobs EXCEPT ![m] = BlobAfterDelete(md, @)]
             /\ chunkFiles' = [chunkFiles EXCEPT ![m] =
                                  Without(@, DeletedChunks(md, chunkFiles[m]))]
             /\ metadata' = [metadata EXCEPT ![m] = NoMetadata]
             /\ latest' = [latest EXCEPT ![m] =
                              Without(@, DeletedChunks(md, chunkFiles[m]))]
             /\ outOfOrder' = [outOfOrder EXCEPT ![m] = FALSE]
             /\ overwritten' = [overwritten EXCEPT ![m] = FALSE]
             /\ lastCall' = Response("delete_file", m, "true", -1, FALSE, FALSE)
             /\ UNCHANGED <<workerVars, importVars, splitVars, pubsubVars>> /\ UNCHANGED <<backend, tasks>>

(***************************************************************************)
(* complete_upload when the storage fails while the chunks are joined:     *)
(* reading chunk i raises, or writing the final blob raises.  The count    *)
(* check has passed and the chunks below i were found.  The local provider *)
(* has no handler: the exception leaves complete_upload, the final file    *)
(* holding what was written so far.  The object-store provider joins into  *)
(* a temporary file, so a failed read leaves it with an exception and the  *)
(* blob untouched; a failed upload of the final blob is caught and         *)
(* answered with status error.  Both fail before the metadata is updated.  *)
(***************************************************************************)
FaultKinds == {"read", "write"}

\* a bug: the record is set to processing before the chunks are joined
MetadataOnStorageError_early(md) == [md EXCEPT !.status = "processing", !.progress = 0]

\* metadata["status"] = "processing" ... _save_metadata come after the join
MetadataOnStorageError(md) == md

complete_upload_storage_error(m, total_chunks, i, kind) ==
    LET md == _load_metadata(m)
        missing == FirstMissing(md.chunks, 0, total_chunks)
    IN  /\ ~ChunkCountMismatch(md, total_chunks)
        /\ i < total_chunks
        /\ IF backend = "gcs" /\ kind = "write"
           THEN missing = total_chunks /\ i = total_chunks - 1
           ELSE missing > i
        /\ blobs' = [blobs EXCEPT ![m] =
                        IF backend = "local" THEN ConcatChunks(chunkFiles[m], i) ELSE @]
        /\ metadata' = [metadata EXCEPT ![m] = MetadataOnStorageError(md)]
        /\ lastCall' = Response("complete_upload_storage_error", m,
                                IF backend = "gcs" /\ kind = "write"
                                THEN "error" ELSE "exception",
                                0, FALSE, FALSE)
        /\ UNCHANGED <<workerVars, importVars, splitVars, pubsubVars>> /\ UNCHANGED <<backend, chunkFiles, tasks, latest, outOfOrder, overwritten>>

\* The endpoints called by the user the media ids are issued to.
\* one provider: no twin is kept
Single == UNCHANGED <<twin, pending, taskRoom>>
ByOwner == caller' = Owner /\ Single
IssueStep == ByOwner /\ \E m \in MediaIds, fs \in FileSizes : generate_upload_url(m, fs)
\* The clients of this specification use the media ids they were issued.
Issued(m) == metadata[m].present
ChunkStep ==
    /\ ByOwner
    /\ \E m \in MediaIds, i \in Indices, t \in Totals :
          \E d \in ChunkData(i) : Issued(m) /\ upload_chunk(m, i, t, d)
CompleteStep ==
    ByOwner /\ \E m \in MediaIds, t \in Totals : Issued(m) /\ complete_upload(m, t)
ProcessStep(m, pc) == UNCHANGED caller /\ Single /\ _process_media(m, pc)
TaskStep == \E m \in MediaIds, pc \in 1..(total_steps + 1) : ProcessStep(m, pc)
StatusStep == ByOwner /\ \E m \in MediaIds : get_media_status(m)
DeleteStep == ByOwner /\ \E m \in MediaIds : delete_file(m)
\* Clients that also call with ids no upload target was issued for.
AnyChunkStep ==
    /\ ByOwner
    /\ \E m \in MediaIds, i \in Indices, t \in Totals :
          \E d \in ChunkData(i) : upload_chunk(m, i, t, d)
AnyCompleteStep == ByOwner /\ \E m \in MediaIds, t \in Totals : complete_upload(m, t)
(***************************************************************************)
(* A second user.  media_id is a string of the request (a form field of    *)
(* upload-chunk, a body field of complete-upload, a path segment of        *)
(* status, which cannot hold a "/"); the user id comes from the token.     *)
(* PlainId is an issued uuid, TraversalId(u, m) the string "../u/m".  The  *)
(* local provider joins base / user_id / media_id and the file system      *)
(* resolves the ".." component; the object-store provider formats the flat *)
(* object name "user_id/media_id/...".  The state holds the owner's        *)
(* directory only: a call that reaches another location leaves it alone    *)
(* and is answered from that other location.                               *)
(***************************************************************************)
PlainId(m) == <<m>>
TraversalId(u, m) == <<"..", u, m>>
ClientIds ==
    {PlainId(m) : m \in MediaIds} \cup {TraversalId(u, m) : u \in Users, m \in MediaIds}
_get_metadata_path(user_id, media_id) ==
    IF backend = "local" /\ Len(media_id) = 3
    THEN <<media_id[2], PlainId(media_id[3])>>
    ELSE <<user_id, media_id>>
InOwnerDir(path) == path[1] = Owner /\ Len(path[2]) = 1
call_elsewhere(op, media_id) ==
    /\ lastCall' = Response(op, media_id[Len(media_id)], "elsewhere", -1, FALSE, FALSE)
    /\ UNCHANGED <<workerVars, importVars, splitVars, pubsubVars>>
    /\ UNCHANGED <<backend, metadata, chunkFiles, blobs, tasks, latest, outOfOrder, overwritten>>
OtherChunkStep ==
    \E u \in Users \ {Owner}, id \in ClientIds, i \in Indices, t \in Totals :
        \E d \in ChunkData(i) :
            /\ caller' = u /\ Single
            /\ LET path == _get_metadata_path(u, id)
               IN  IF InOwnerDir(path)
                   THEN upload_chunk(path[2][1], i, t, d)
                   ELSE call_elsewhere("upload_chunk", id)
OtherCompleteStep ==
    \E u \in Users \ {Owner}, id \in ClientIds, t \in Totals :
        /\ caller' = u /\ Single
        /\ LET path == _get_metadata_path(u, id)
           IN  IF InOwnerDir(path)
               THEN complete_upload(path[2][1], t)
               ELSE call_elsewhere("complete_upload", id)
OtherStatusStep ==
    \E u \in Users \ {Owner}, m \in MediaIds :
        /\ caller' = u /\ Single
        /\ LET path == _get_metadata_path(u, PlainId(m))
           IN  IF InOwnerDir(path)
               THEN get_media_status(path[2][1])
               ELSE call_elsewhere("get_media_status", PlainId(m))
(***************************************************************************)
(* The two providers in lockstep.  A call (or a step of a background task) *)
(* is given to the provider in place, the provider in place and its twin   *)
(* change places, and the same call with the same arguments is given to    *)
(* the other one.  The client calls with the ids it was issued.            *)
(***************************************************************************)
Calls ==
    {Call("generate_upload_url", m, fs, 0, <<>>) : m \in MediaIds, fs \in FileSizes}
    \cup UNION {{Call("upload_chunk", m, i, t, d) : m \in MediaIds, t \in Totals,
                     d \in ChunkData(i)} : i \in Indices}
    \cup {Call("complete_upload", m, t, 0, <<>>) : m \in MediaIds, t \in Totals}
    \cup {Call("get_media_status", m, 0, 0, <<>>) : m \in MediaIds}
    \cup {Call("delete_file", m, 0, 0, <<>>) : m \in MediaIds}
    \cup {Call("_process_media", m, pc, 0, <<>>) : m \in MediaIds, pc \in 1..(total_steps + 1)}
Apply(c) ==
    \/ c.op = "generate_upload_url" /\ generate_upload_url(c.m, c.a)
    \/ c.op = "upload_chunk" /\ upload_chunk(c.m, c.a, c.b, c.d)
    \/ c.op = "complete_upload" /\ complete_upload(c.m, c.a)
    \/ c.op = "get_media_status" /\ get_media_status(c.m)
    \/ c.op = "delete_file" /\ delete_file(c.m)
    \/ c.op = "_process_media" /\ _process_media(c.m, c.a)
CurrentStore ==
    [backend |-> backend, metadata |-> metadata, chunkFiles |-> chunkFiles,
     blobs |-> blobs, tasks |-> tasks, latest |-> latest,
     outOfOrder |-> outOfOrder, overwritten |-> overwritten, lastCall |-> lastCall]
CallStep ==
    /\ pending = NoCall
    /\ \E c \in Calls :
          /\ c.op \in {"upload_chunk", "complete_upload"} => Issued(c.m)
          /\ Apply(c)
          /\ pending' = c
    /\ caller' = Owner
    /\ UNCHANGED <<twin, taskRoom>>
SwapStep ==
    /\ pending # NoCall /\ ~pending.swapped
    /\ twin' = CurrentStore
    /\ backend' = twin.backend
    /\ metadata' = twin.metadata
    /\ chunkFiles' = twin.chunkFiles
    /\ blobs' = twin.blobs
    /\ tasks' = twin.tasks
    /\ latest' = twin.latest
    /\ outOfOrder' = twin.outOfOrder
    /\ overwritten' = twin.overwritten
    /\ lastCall' = twin.lastCall
    /\ pending' = [pending EXCEPT !.swapped = TRUE]
    /\ UNCHANGED <<workerVars, importVars, splitVars, pubsubVars>> /\ UNCHANGED <<caller, taskRoom>>
ReplayStep ==
    /\ pending # NoCall /\ pending.swapped
    /\ Apply([pending EXCEPT !.swapped = FALSE])
    /\ pending' = NoCall
    /\ UNCHANGED <<caller, twin, taskRoom>>

StorageErrorStep ==
    /\ ByOwner
    /\ \E m \in MediaIds, t \in Totals, i \in Indices, kind \in FaultKinds :
          Issued(m) /\ complete_upload_storage_error(m, t, i, kind)

(***************************************************************************)
(* MediaWorker (workers/media_worker.py) and the tables it works on.       *)
(* crud_media, the asynchronous CRUD of media_assets the worker calls, is  *)
(* not in the repository (the module imports app.services.media's          *)
(* media_asset and never binds the name); the unit tests patch it with     *)
(* get(db, id) -> row or None and update(db, db_obj, obj_in).  It is       *)
(* modelled as that record store: get reads the row and may raise,         *)
(* update assigns the given fields.                                        *)
(***************************************************************************)
MediaTypes == {"audio", "image", "pdf", "url"}
STTTexts == {"text a", "text b"}
Runs == 1..MaxRuns
FileBytes == <<7, 7>>

NoRow == [exists |-> FALSE, media_type |-> "audio", processing_status |-> "pending",
          error_message |-> "", processed_at |-> FALSE]

crud_media_get == IF media.exists THEN media ELSE NoRow

crud_media_update(obj_in_status) == [media EXCEPT !.processing_status = obj_in_status]

\* CRUDBase.create: a new row is built from obj_in, added and committed
crud_transcript_create(rows, obj_in) == Append(rows, obj_in)

\* found, raised and writes are history: whether the first crud_media.get
\* returned the row, whether the except branch was entered, and the status
\* updates the run made, each as <<status before, status written>>
IdleRun == [pc |-> "idle", success |-> FALSE, text |-> "",
            found |-> FALSE, raised |-> FALSE, writes |-> <<>>]

WorkerInit ==
    /\ media \in [exists : BOOLEAN, media_type : MediaTypes,
                  processing_status : {"pending"}, error_message : {""},
                  processed_at : {FALSE}]
    /\ storedFile \in {NoBlob, FileBytes}
    /\ transcripts = <<>>
    /\ runs = [r \in Runs |-> IdleRun]

WorkerIdle ==
    /\ media = NoRow
    /\ storedFile = NoBlob
    /\ transcripts = <<>>
    /\ runs = [r \in Runs |-> IdleRun]

StorageIdle ==
    /\ backend = "local"
    /\ metadata = [m \in MediaIds |-> NoMetadata]
    /\ chunkFiles = [m \in MediaIds |-> NoChunks]
    /\ blobs = [m \in MediaIds |-> NoBlob]
    /\ tasks = [m \in MediaIds |-> NoTasks]
    /\ taskRoom = MaxTasks
    /\ latest = [m \in MediaIds |-> NoChunks]
    /\ outOfOrder = [m \in MediaIds |-> FALSE]
    /\ overwritten = [m \in MediaIds |-> FALSE]
    /\ caller = Owner
    /\ twin = InitialStore(OtherBackend(backend))
    /\ pending = NoCall
    /\ lastCall = Response("init", "m1", "none", -1, FALSE, FALSE)

SetRun(r, pc, success, text) ==
    runs' = [runs EXCEPT ![r].pc = pc, ![r].success = success, ![r].text = text,
                         ![r].found = @ \/ pc = "found",
                         ![r].raised = @ \/ pc = "except"]

\* the run goes on after its crud_media.update of the status has been made
SetRunUpdated(r, pc, success, status) ==
    runs' = [runs EXCEPT ![r].pc = pc, ![r].success = success, ![r].text = "",
                         ![r].writes = Append(@, <<media.processing_status, status>>)]

\* process_media, up to the await of crud_media.get: the row is read, or the
\* call raises and the except branch is entered
process_media_get(r) ==
    /\ runs[r].pc = "idle"
    /\ \E raises \in BOOLEAN :
          IF raises THEN SetRun(r, "except", FALSE, "")
          ELSE IF ~crud_media_get.exists THEN SetRun(r, "returned", FALSE, "")
          ELSE SetRun(r, "found", FALSE, "")
    /\ UNCHANGED <<storageVars, importVars, splitVars, pubsubVars, media, storedFile, transcripts>>

\* crud_media.update(obj_in = {"processing_status": PROCESSING}), which may raise
process_media_mark(r) ==
    /\ runs[r].pc = "found"
    /\ \E raises \in BOOLEAN :
          IF raises
          THEN UNCHANGED media /\ SetRun(r, "except", FALSE, "")
          ELSE /\ media' = crud_media_update("processing")
               /\ SetRunUpdated(r, "dispatch", FALSE, "processing")
    /\ UNCHANGED <<storageVars, importVars, splitVars, pubsubVars, storedFile, transcripts>>

\* the branch on media.media_type; for audio, _process_audio up to the await
\* of transcribe_file, which returns a text or raises
_process_audio(r) ==
    /\ runs[r].pc = "dispatch"
    /\ IF media.media_type = "audio"
       THEN IF storedFile = NoBlob
            THEN SetRun(r, "finish", FALSE, "")
            ELSE \E ok \in BOOLEAN, t \in STTTexts :
                    IF ok THEN SetRun(r, "transcribed", FALSE, t)
                    ELSE SetRun(r, "finish", FALSE, "")
       ELSE SetRun(r, "finish", media.media_type \in {"image", "pdf", "url"}, "")
    /\ UNCHANGED <<storageVars, importVars, splitVars, pubsubVars, media, storedFile, transcripts>>

\* crud_transcript.create(obj_in = transcript_data); return True.  An
\* exception of the create is caught by _process_audio, which returns False
TranscriptData(text) == [media_asset_id |-> "a1", provider |-> "google", text |-> text]

process_audio_create(r) ==
    /\ runs[r].pc = "transcribed"
    /\ \E raises \in BOOLEAN :
          IF raises
          THEN UNCHANGED transcripts /\ SetRun(r, "finish", FALSE, "")
          ELSE /\ transcripts' =
                     crud_transcript_create(transcripts, TranscriptData(runs[r].text))
               /\ SetRun(r, "finish", TRUE, "")
    /\ UNCHANGED <<storageVars, importVars, splitVars, pubsubVars, media, storedFile>>

\* status = COMPLETED if success else FAILED; crud_media.update, which may
\* raise; return success
\* a bug: the result of the processing is ignored
TerminalStatus_completed(success) == "completed"

TerminalStatus(success) == IF success THEN "completed" ELSE "failed"

process_media_finish(r) ==
    /\ runs[r].pc = "finish"
    /\ \E raises \in BOOLEAN :
          IF raises
          THEN UNCHANGED media /\ SetRun(r, "except", FALSE, "")
          ELSE /\ media' = crud_media_update(TerminalStatus(runs[r].success))
               /\ SetRunUpdated(r, "returned", runs[r].success,
                                TerminalStatus(runs[r].success))
    /\ UNCHANGED <<storageVars, importVars, splitVars, pubsubVars, storedFile, transcripts>>

\* except Exception: the row is read again and, when found, set to FAILED;
\* an exception of this second attempt is logged; return False
process_media_except(r) ==
    /\ runs[r].pc = "except"
    /\ \E raises \in BOOLEAN :
          IF ~raises /\ crud_media_get.exists
          THEN media' = crud_media_update("failed")
               /\ SetRunUpdated(r, "returned", FALSE, "failed")
          ELSE UNCHANGED media /\ SetRun(r, "returned", FALSE, "")
    /\ UNCHANGED <<storageVars, importVars, splitVars, pubsubVars, storedFile, transcripts>>

GetStep == \E r \in Runs : process_media_get(r)
MarkStep == \E r \in Runs : process_media_mark(r)
AudioStep == \E r \in Runs : _process_audio(r)
CreateStep == \E r \in Runs : process_audio_create(r)
FinishStep == \E r \in Runs : process_media_finish(r)
ExceptStep == \E r \in Runs : process_media_except(r)

(***************************************************************************)
(* Import jobs (api/api_v1/endpoints/imports.py).  import_jobs is a dict   *)
(* of the process.  An import endpoint draws a fresh uuid4, registers the  *)
(* job (pending, progress 0.0) and adds the background function, which     *)
(* runs after the response: it updates the job between its awaits.         *)
(* progress is kept in tenths: 0.1 is 1, 1.0 is 10.  pc is the position of *)
(* the background function, updates the progress values written so far.    *)
(***************************************************************************)
ImportIds == 1..MaxImports
ImportTypes == {"url", "file"}
\* the page limit both background functions compare the text length with
page_limit == 2000
\* lengths of the extracted text: empty, at the limit, one over it
TextLengths == {0, page_limit, page_limit + 1}
\* pages are kept as the sequence of their text_length values
NoPages == <<>>
NoJob ==
    [exists |-> FALSE, import_type |-> "url", status |-> "none", progress |-> 0,
     user_id |-> Owner, error_code |-> "", pc |-> "none", updates |-> <<>>,
     text_len |-> 0, title |-> "", pages |-> NoPages]
NoAnswer == [code |-> 0, title |-> "", pages |-> NoPages]

ImportIdle ==
    /\ import_jobs = [id \in ImportIds |-> NoJob]
    /\ IMPORT_SPLIT_ENABLED = TRUE
    /\ import_answer = NoAnswer

\* a bug: the progress written after the title step is below the one before
StageProgress_regress(import_type, stage) ==
    IF import_type = "url"
    THEN CASE stage = "processing" -> 1 [] stage = "extracted" -> 5
           [] stage = "titled" -> 3 [] stage = "completed" -> 10
    ELSE CASE stage = "processing" -> 1 [] stage = "loaded" -> 3
           [] stage = "extracted" -> 6 [] stage = "titled" -> 8
           [] stage = "completed" -> 10

\* the "progress" values of the job_info.update calls
StageProgress(import_type, stage) ==
    IF import_type = "url"
    THEN CASE stage = "processing" -> 1 [] stage = "extracted" -> 5
           [] stage = "titled" -> 7 [] stage = "completed" -> 10
    ELSE CASE stage = "processing" -> 1 [] stage = "loaded" -> 3
           [] stage = "extracted" -> 6 [] stage = "titled" -> 8
           [] stage = "completed" -> 10

\* job_info.update({"progress": p, ...})
UpdateProgress(job, stage) ==
    LET p == StageProgress(job.import_type, stage)
    IN  [job EXCEPT !.progress = p, !.updates = Append(@, p)]
\* a bug: the except branch also resets the progress
UpdateFailed_reset(job, code) ==
    [job EXCEPT !.status = "failed", !.error_code = code, !.pc = "done",
                !.progress = 0, !.updates = Append(@, 0)]
\* the except branches: status FAILED and an error code, progress not written
UpdateFailed(job, code) ==
    [job EXCEPT !.status = "failed", !.error_code = code, !.pc = "done"]

RegisterJob(id, import_type, user_id) ==
    /\ ~import_jobs[id].exists
    /\ import_jobs' = [import_jobs EXCEPT ![id] =
           [NoJob EXCEPT !.exists = TRUE, !.import_type = import_type,
                         !.status = "pending", !.progress = 0, !.user_id = user_id,
                         !.pc = "queued", !.updates = <<0>>]]
    /\ UNCHANGED <<storageVars, workerVars, splitVars, pubsubVars, IMPORT_SPLIT_ENABLED, import_answer>>
import_from_url(id, user_id) == RegisterJob(id, "url", user_id)
import_from_file(id, user_id) == RegisterJob(id, "file", user_id)

\* What the awaited call of a step does: it returns, raises the importer's
\* error (URLImportError, FileProcessorError), or raises something else.
Outcomes == {"ok", "import_error", "exception"}
\* What the AI title generation meets: the provider answers a title, the
\* provider's request raises, or building the service raises.
AIOutcomes == {"title", "provider_raises", "service_raises"}
\* What _split_into_chunks answers for a text one character over the limit,
\* as chunk lengths: nothing for a text of white space, one chunk for a
\* paragraph followed by a blank line, two for an unbroken text.
SplitResults == {<<>>, <<page_limit - 1>>, <<page_limit, 1>>}
\* What a background function reads besides the job: the request's
\* auto_title and auto_split (each read once, so drawn where it is read) and
\* what its awaited calls do.
Inputs ==
    [outcome : Outcomes, auto_title : BOOLEAN, auto_split : BOOLEAN,
     ai : AIOutcomes, text_len : TextLengths, chunks : SplitResults]
\* the inputs the stage at a position reads; the others are left at a default
NoInput ==
    [outcome |-> "ok", auto_title |-> FALSE, auto_split |-> FALSE,
     ai |-> "title", text_len |-> 0, chunks |-> NoPages]
StageInputs(pc) ==
    CASE pc = "extract" ->
           {[NoInput EXCEPT !.outcome = o, !.text_len = n] :
                o \in Outcomes, n \in TextLengths}
      [] pc = "title" ->
           {[NoInput EXCEPT !.auto_title = t, !.ai = a] : t \in BOOLEAN, a \in AIOutcomes}
      [] pc = "finish" ->
           {[NoInput EXCEPT !.outcome = o, !.auto_split = sp, !.chunks = c] :
                o \in Outcomes, sp \in BOOLEAN, c \in SplitResults}
      [] OTHER -> {NoInput}

\* AIService.generate_title: an exception of the provider is caught and an
\* error message is returned in place of the title
generate_title(ai) == IF ai = "provider_raises" THEN "error_message" ELSE "ai"

\* the title stage: the default title, replaced by the AI's answer when a
\* title is requested and there is text; an exception keeps the default
TitleStage(auto_title, text_len, ai) ==
    IF auto_title /\ text_len > 0
    THEN IF ai = "service_raises" THEN "default" ELSE generate_title(ai)
    ELSE "default"

\* text[i:i+2000] for i in range(0, len(text), 2000), as lengths
FixedSlices(text_len) ==
    [i \in 1..((text_len + page_limit - 1) \div page_limit) |->
        IF i * page_limit <= text_len THEN page_limit
        ELSE text_len - (i - 1) * page_limit]

\* the pages of a url import
UrlPages(auto_split, text_len, enabled, chunks) ==
    IF auto_split /\ text_len > page_limit /\ enabled THEN chunks ELSE <<text_len>>
\* the pages of a file import
FilePages(auto_split, text_len) ==
    IF auto_split /\ text_len > page_limit THEN FixedSlices(text_len) ELSE <<text_len>>

\* job_info.update({"status": COMPLETED, "progress": 1.0, "title": ..., "pages": ...})
UpdateCompleted(job, pages) ==
    [UpdateProgress([job EXCEPT !.status = "completed", !.pages = pages], "completed")
        EXCEPT !.pc = "done"]

_process_url_import(id, inp) ==
    LET job == import_jobs[id]
    IN  /\ job.exists /\ job.import_type = "url" /\ job.pc \notin {"none", "done"}
        /\ import_jobs' = [import_jobs EXCEPT ![id] =
              CASE job.pc = "queued" ->
                     [UpdateProgress([job EXCEPT !.status = "processing"], "processing")
                         EXCEPT !.pc = "extract"]
                [] job.pc = "extract" ->
                     IF inp.outcome = "ok"
                     THEN [UpdateProgress([job EXCEPT !.text_len = inp.text_len],
                                          "extracted") EXCEPT !.pc = "title"]
                     ELSE UpdateFailed(job, IF inp.outcome = "import_error"
                                            THEN "URL_IMPORT_ERROR" ELSE "INTERNAL_ERROR")
                [] job.pc = "title" ->
                     [UpdateProgress(
                          [job EXCEPT !.title =
                               TitleStage(inp.auto_title, job.text_len, inp.ai)],
                          "titled") EXCEPT !.pc = "finish"]
                [] job.pc = "finish" ->
                     IF inp.outcome = "ok"
                     THEN UpdateCompleted(job,
                              UrlPages(inp.auto_split, job.text_len,
                                       IMPORT_SPLIT_ENABLED, inp.chunks))
                     ELSE UpdateFailed(job, IF inp.outcome = "import_error"
                                            THEN "URL_IMPORT_ERROR" ELSE "INTERNAL_ERROR")]
        /\ UNCHANGED <<storageVars, workerVars, splitVars, pubsubVars, IMPORT_SPLIT_ENABLED, import_answer>>

_process_file_import(id, inp) ==
    LET job == import_jobs[id]
    IN  /\ job.exists /\ job.import_type = "file" /\ job.pc \notin {"none", "done"}
        /\ import_jobs' = [import_jobs EXCEPT ![id] =
              CASE job.pc = "queued" ->
                     [UpdateProgress(
                          UpdateProgress([job EXCEPT !.status = "processing"], "processing"),
                          "loaded")
                         EXCEPT !.pc = "extract"]
                [] job.pc = "extract" ->
                     IF inp.outcome = "ok"
                     THEN [UpdateProgress([job EXCEPT !.text_len = inp.text_len],
                                          "extracted") EXCEPT !.pc = "title"]
                     ELSE UpdateFailed(job, IF inp.outcome = "import_error"
                                            THEN "FILE_IMPORT_ERROR" ELSE "INTERNAL_ERROR")
                [] job.pc = "title" ->
                     [UpdateProgress(
                          [job EXCEPT !.title =
                               TitleStage(inp.auto_title, job.text_len, inp.ai)],
                          "titled") EXCEPT !.pc = "finish"]
                [] job.pc = "finish" ->
                     IF inp.outcome = "ok"
                     THEN UpdateCompleted(job, FilePages(inp.auto_split, job.text_len))
                     ELSE UpdateFailed(job, IF inp.outcome = "import_error"
                                            THEN "FILE_IMPORT_ERROR" ELSE "INTERNAL_ERROR")]
        /\ UNCHANGED <<storageVars, workerVars, splitVars, pubsubVars, IMPORT_SPLIT_ENABLED, import_answer>>

\* a bug: the result is answered whatever the job's status
ResultOf_unchecked(id, uid) ==
    LET job == import_jobs[id]
    IN  CASE ~job.exists -> [NoAnswer EXCEPT !.code = 404]
          [] job.user_id # uid -> [NoAnswer EXCEPT !.code = 403]
          [] OTHER -> [code |-> 200, title |-> job.title, pages |-> job.pages]

\* get_import_result: 404 for an unknown id, 403 for another user's job, 400
\* unless the job is completed, else the job's title and pages
ResultOf(id, uid) ==
    LET job == import_jobs[id]
    IN  CASE ~job.exists -> [NoAnswer EXCEPT !.code = 404]
          [] job.user_id # uid -> [NoAnswer EXCEPT !.code = 403]
          [] job.status # "completed" -> [NoAnswer EXCEPT !.code = 400]
          [] OTHER -> [code |-> 200, title |-> job.title, pages |-> job.pages]
get_import_result(id, uid) ==
    /\ import_answer' = ResultOf(id, uid)
    /\ UNCHANGED <<storageVars, workerVars, splitVars, pubsubVars, import_jobs, IMPORT_SPLIT_ENABLED>>

ImportUrlStep == \E id \in ImportIds, u \in Users : import_from_url(id, u)
ImportFileStep == \E id \in ImportIds, u \in Users : import_from_file(id, u)
UrlImportStep ==
    \E id \in ImportIds : \E inp \in StageInputs(import_jobs[id].pc) :
        _process_url_import(id, inp)
FileImportStep ==
    \E id \in ImportIds : \E inp \in StageInputs(import_jobs[id].pc) :
        _process_file_import(id, inp)
ResultStep == \E id \in ImportIds, u \in Users : get_import_result(id, u)

(***************************************************************************)
(* _split_into_chunks (services/url_importer.py).  A text is a sequence of  *)
(* characters; NL is the line feed, SP a space, MARU the full stop "。"     *)
(* (one of the sentence terminators 。！？).                                *)
(***************************************************************************)
NL == "\n"
SP == " "
MARU == "maru"
Chars == {"a", "b", NL, SP, MARU}
Terminators == {MARU}
IsSpace(c) == c \in {NL, SP}
Texts == UNION {[1..n -> Chars] : n \in 0..MaxTextLen}

SetMax(S) == CHOOSE x \in S : \A y \in S : y <= x
SetMin(S) == CHOOSE x \in S : \A y \in S : x <= y

\* the end of the run of white space that starts at i (i - 1 if there is none)
RunEnd(t, i) ==
    LET ks == {k \in i..Len(t) : \A p \in i..k : IsSpace(t[p])}
    IN  IF ks = {} THEN i - 1 ELSE SetMax(ks)

\* where a match of the pattern that starts at i ends, 0 if none starts there:
\* r'\n\s*\n' takes the longest run of white space that ends in a line feed,
\* r'[。！？]\s*' a terminator and all white space after it
MatchEnd(kind, t, i) ==
    IF kind = "paragraph"
    THEN IF t[i] = NL
         THEN LET js == {p \in (i + 1)..RunEnd(t, i + 1) : t[p] = NL}
              IN  IF js = {} THEN 0 ELSE SetMax(js)
         ELSE 0
    ELSE IF t[i] \in Terminators THEN RunEnd(t, i + 1) ELSE 0

\* re.split(pattern, t): the pieces between the matches, scanning from i
\* with the current piece starting at start
RECURSIVE re_split(_, _, _, _)
re_split(kind, t, i, start) ==
    IF i > Len(t) THEN <<SubSeq(t, start, Len(t))>>
    ELSE LET e == MatchEnd(kind, t, i)
         IN  IF e = 0 THEN re_split(kind, t, i + 1, start)
             ELSE <<SubSeq(t, start, i - 1)>> \o re_split(kind, t, e + 1, e + 1)

\* str.strip()
strip(s) ==
    LET idx == {p \in 1..Len(s) : ~IsSpace(s[p])}
    IN  IF idx = {} THEN <<>> ELSE SubSeq(s, SetMin(idx), SetMax(idx))

\* [paragraph[i:i + max] for i in range(0, len(paragraph), max)]
ForcedSlices(paragraph, max) ==
    [k \in 1..((Len(paragraph) + max - 1) \div max) |->
        SubSeq(paragraph, (k - 1) * max + 1,
               IF k * max <= Len(paragraph) THEN k * max ELSE Len(paragraph))]

\* the loop over the paragraphs from the k-th on, with the chunks saved so
\* far and the chunk being built
RECURSIVE Accumulate(_, _, _, _, _)
Accumulate(paragraphs, k, saved, current_chunk, max) ==
    IF k > Len(paragraphs)
    THEN IF current_chunk # <<>> THEN Append(saved, current_chunk) ELSE saved
    ELSE LET paragraph == strip(paragraphs[k])
         IN  IF paragraph = <<>>
             THEN Accumulate(paragraphs, k + 1, saved, current_chunk, max)
             ELSE IF Len(current_chunk) + Len(paragraph) <= max
             THEN Accumulate(paragraphs, k + 1, saved,
                             IF current_chunk # <<>>
                             THEN current_chunk \o <<NL, NL>> \o paragraph
                             ELSE paragraph, max)
             ELSE LET kept == IF current_chunk # <<>>
                              THEN Append(saved, current_chunk) ELSE saved
                  IN  IF Len(paragraph) > max
                      THEN Accumulate(paragraphs, k + 1,
                                      kept \o ForcedSlices(paragraph, max), <<>>, max)
                      ELSE Accumulate(paragraphs, k + 1, kept, paragraph, max)

_split_into_chunks(t, max) ==
    IF Len(t) <= max THEN <<t>>
    ELSE LET by_paragraph == re_split("paragraph", t, 1, 1)
             paragraphs == IF Len(by_paragraph) = 1
                           THEN re_split("sentence", t, 1, 1) ELSE by_paragraph
         IN  Accumulate(paragraphs, 1, <<>>, <<>>, max)

SplitIdle ==
    split_text = <<>> /\ max_chars = 1 /\ text_chunks = <<>> /\ returned = FALSE
SplitCall ==
    /\ ~returned
    /\ text_chunks' = _split_into_chunks(split_text, max_chars)
    /\ returned' = TRUE
    /\ UNCHANGED <<storageVars, workerVars, importVars, pubsubVars, split_text, max_chars>>

(***************************************************************************)
(* create_media_asset (api/api_v1/endpoints/media.py).  assets are the     *)
(* rows media_asset.create_with_page has added, published the messages the *)
(* endpoint has handed to pubsub_client.publish_message; delivered tells   *)
(* whether that call returned a message id or raised.                      *)
(***************************************************************************)
StoragePaths == {"path a", "path b"}
\* a bug: only audio assets are announced
Processable_audio == {"audio"}
\* [MediaType.AUDIO, MediaType.IMAGE, MediaType.PDF, MediaType.URL]
Processable == {"audio", "image", "pdf", "url"}
\* what the page and notebook lookups find
Accesses == {"ok", "no page", "other owner", "deleted"}

PubsubIdle == PUBSUB_ENABLED = FALSE /\ assets = <<>> /\ published = <<>>

Message(new_media, uid, delivered) ==
    [topic_id |-> "media-new", media_id |-> new_media.id,
     media_type |-> new_media.media_type, storage_path |-> new_media.storage_path,
     user_id |-> uid, delivered |-> delivered]

create_media_asset(uid, access, media_type, storage_path, publish_ok) ==
    /\ Len(assets) < MaxAssets
    /\ IF access # "ok"
       THEN UNCHANGED <<assets, published>>
       ELSE LET new_media == [id |-> Len(assets) + 1, media_type |-> media_type,
                              storage_path |-> storage_path]
            IN  /\ assets' = Append(assets, new_media)
                /\ IF new_media.media_type \in Processable /\ PUBSUB_ENABLED
                   THEN published' = Append(published, Message(new_media, uid, publish_ok))
                   ELSE UNCHANGED published
    /\ UNCHANGED <<storageVars, workerVars, importVars, splitVars, PUBSUB_ENABLED>>

CreateAssetStep ==
    \E uid \in Users, access \in Accesses, media_type \in MediaTypes,
       storage_path \in StoragePaths, publish_ok \in BOOLEAN :
        create_media_asset(uid, access, media_type, storage_path, publish_ok)

Init == StorageInit /\ WorkerIdle /\ ImportIdle /\ SplitIdle /\ PubsubIdle
Next == IssueStep \/ ChunkStep \/ CompleteStep \/ TaskStep
Spec == Init /\ [][Next]_vars

\* the storage provider with deletion and status polling
LifecycleNext ==
    IssueStep \/ ChunkStep \/ CompleteStep \/ TaskStep \/ StatusStep \/ DeleteStep
LifecycleSpec == Init /\ [][LifecycleNext]_vars

\* the storage provider polled for the status, with room for one more
\* _process_media task per id: a complete_upload can arrive while the task of
\* an earlier one is running
InitConcurrent ==
    /\ backend \in Backends
    /\ metadata = [m \in MediaIds |-> NoMetadata]
    /\ chunkFiles = [m \in MediaIds |-> NoChunks]
    /\ blobs = [m \in MediaIds |-> NoBlob]
    /\ tasks = [m \in MediaIds |-> NoTasks]
    /\ taskRoom = MaxTasks + 1
    /\ latest = [m \in MediaIds |-> NoChunks]
    /\ outOfOrder = [m \in MediaIds |-> FALSE]
    /\ overwritten = [m \in MediaIds |-> FALSE]
    /\ caller = Owner
    /\ twin = InitialStore(OtherBackend(backend))
    /\ pending = NoCall
    /\ lastCall = Response("init", "m1", "none", -1, FALSE, FALSE)
    /\ WorkerIdle /\ ImportIdle /\ SplitIdle /\ PubsubIdle
ConcurrentNext == IssueStep \/ ChunkStep \/ CompleteStep \/ TaskStep \/ StatusStep
ConcurrentSpec == InitConcurrent /\ [][ConcurrentNext]_vars

\* the storage provider on a storage that may fail during complete_upload
FaultNext == IssueStep \/ ChunkStep \/ CompleteStep \/ TaskStep \/ StorageErrorStep
FaultSpec == Init /\ [][FaultNext]_vars

\* the storage provider called with any id, issued or not
OpenNext == IssueStep \/ AnyChunkStep \/ AnyCompleteStep \/ TaskStep \/ StatusStep
OpenSpec == Init /\ [][OpenNext]_vars

\* the upload endpoints called by the owner and by a second user; every step
\* is an endpoint call
IsolationNext ==
    \/ IssueStep \/ ChunkStep \/ CompleteStep
    \/ OtherChunkStep \/ OtherCompleteStep \/ OtherStatusStep
IsolationSpec == Init /\ [][IsolationNext]_vars

\* the local and the object-store provider given the same calls
EquivNext == CallStep \/ SwapStep \/ ReplayStep
EquivSpec == Init /\ [][EquivNext]_vars

\* the import endpoints and their background functions, the rest idle
InitImport ==
    /\ StorageIdle /\ WorkerIdle /\ SplitIdle /\ PubsubIdle
    /\ import_jobs = [id \in ImportIds |-> NoJob]
    /\ IMPORT_SPLIT_ENABLED \in BOOLEAN
    /\ import_answer = NoAnswer
ImportNext ==
    ImportUrlStep \/ ImportFileStep \/ UrlImportStep \/ FileImportStep \/ ResultStep
ImportSpec == InitImport /\ [][ImportNext]_vars

\* the worker alone, the storage provider idle
InitWorker == StorageIdle /\ WorkerInit /\ ImportIdle /\ SplitIdle /\ PubsubIdle
NextWorker == GetStep \/ MarkStep \/ AudioStep \/ CreateStep \/ FinishStep \/ ExceptStep
WorkerSpec == InitWorker /\ [][NextWorker]_vars

\* _split_into_chunks called once with any text and any maximum chunk size
InitSplit ==
    /\ StorageIdle /\ WorkerIdle /\ ImportIdle /\ PubsubIdle
    /\ split_text \in Texts
    /\ max_chars \in 1..MaxChars
    /\ text_chunks = <<>>
    /\ returned = FALSE
SplitSpec == InitSplit /\ [][SplitCall]_vars

\* create_media_asset called with Pub/Sub enabled or disabled
InitPubsub ==
    /\ StorageIdle /\ WorkerIdle /\ ImportIdle /\ SplitIdle
    /\ PUBSUB_ENABLED \in BOOLEAN
    /\ assets = <<>>
    /\ published = <<>>
PubsubSpec == InitPubsub /\ [][CreateAssetStep]_vars

(***************************************************************************)
(* Fairness: the event loop resumes every sleeping task.                   *)
(***************************************************************************)
FairSpec ==
    /\ Spec
    /\ \A m \in MediaIds, pc \in 1..(total_steps + 1) : WF_vars(ProcessStep(m, pc))

(***************************************************************************)
(* Operators the properties are stated with.                               *)
(***************************************************************************)
\* chunk i, then chunk i + 1, ... up to chunk n - 1
RECURSIVE Ascending(_, _, _)
Ascending(f, i, n) == IF i >= n THEN <<>> ELSE f[i] \o Ascending(f, i + 1, n)

\* a / b <= c / d, an absent fraction <<0, 0>> counting as 0
FracLeq(x, y) == IF x[2] = 0 THEN TRUE ELSE y[2] # 0 /\ x[1] * y[2] <= y[1] * x[2]

StatusRank(st) ==
    CASE st = "none" -> 0
      [] st = "pending" -> 1
      [] st = "processing" -> 2
      [] OTHER -> 3

(***************************************************************************)
(* C1: when the chunk map of a media id holds exactly the indices 0..N-1,  *)
(* in whatever order they arrived, complete_upload(total = N) answers      *)
(* processing and the final blob is the bytes sent for 0, 1, ..., N-1      *)
(* joined in ascending index order.                                        *)
(***************************************************************************)
C1_ChunkOrderIndependence ==
    [][\A m \in MediaIds, n \in Totals :
          (DOMAIN latest[m] = 0..(n - 1) /\ Issued(m) /\ complete_upload(m, n))
          => /\ lastCall'.status = "processing"
             /\ blobs'[m] = Ascending(latest[m], 0, n)]_vars

C1_Witness ==
    \E m \in MediaIds :
        /\ lastCall.op = "complete_upload" /\ lastCall.status = "processing"
        /\ outOfOrder[m] /\ ~overwritten[m]
        /\ DOMAIN latest[m] = 0..MaxIndex
        /\ blobs[m] = Ascending(latest[m], 0, MaxIndex + 1)
        /\ latest[m][0] # latest[m][1]

(***************************************************************************)
(* C2: complete_upload(id, total) on a chunk map whose indices are not     *)
(* exactly 0..total-1 answers error, leaves the status as it was (pending  *)
(* stays pending) and starts no task.                                      *)
(***************************************************************************)
C2_CompletionPrecondition ==
    [][\A m \in MediaIds, n \in Totals :
          (DOMAIN metadata[m].chunks # 0..(n - 1) /\ Issued(m) /\ complete_upload(m, n))
          => /\ lastCall'.status = "error"
             /\ metadata'[m].status = metadata[m].status
             /\ tasks'[m] = tasks[m]]_vars

\* the count equals the total (1 chunk, total 1) and index 0 is missing: only
\* then does the local provider leave an empty final file behind
C2_Witness ==
    \E m \in MediaIds :
        /\ lastCall.op = "complete_upload" /\ lastCall.status = "error"
        /\ metadata[m].status = "pending"
        /\ DOMAIN metadata[m].chunks = {1}
        /\ backend = "local" /\ blobs[m] = <<>>
        /\ NumTasks(m) = 0

(***************************************************************************)
(* C3: sending a stored index k again replaces the chunk's bytes and its   *)
(* bookkeeping entry, the number of recorded chunks stays the same, and a  *)
(* blob finalized later is made of the latest bytes of every index.        *)
(***************************************************************************)
C3_IdempotentChunkOverwrite ==
    [][\A m \in MediaIds :
          /\ \A k \in Indices, n \in Totals : \A d \in ChunkData(k) :
                (/\ metadata'[m].total_chunks = n /\ k \in DOMAIN metadata[m].chunks
                 /\ Issued(m) /\ upload_chunk(m, k, n, d))
                => /\ DOMAIN metadata'[m].chunks = DOMAIN metadata[m].chunks
                   /\ metadata'[m].chunks[k] = Len(d)
                   /\ chunkFiles'[m][k] = d
                   /\ \A j \in DOMAIN chunkFiles[m] \ {k} :
                          chunkFiles'[m][j] = chunkFiles[m][j]
          /\ \A n \in Totals :
                (lastCall'.status = "processing" /\ Issued(m) /\ complete_upload(m, n))
                => blobs'[m] = Ascending(latest[m], 0, n)]_vars

C3_Witness ==
    \E m \in MediaIds :
        /\ overwritten[m]
        /\ lastCall.op = "complete_upload" /\ lastCall.status = "processing"
        /\ blobs[m] = Ascending(latest[m], 0, Cardinality(DOMAIN latest[m]))

(***************************************************************************)
(* C4: every upload_chunk records upload_progress = (distinct indices      *)
(* received so far) / total, and the recorded progress never decreases     *)
(* from one call to the next.                                              *)
(***************************************************************************)
C4_ProgressMonotone ==
    [][\A m \in MediaIds, k \in Indices, n \in Totals : \A d \in ChunkData(k) :
          (Issued(m) /\ upload_chunk(m, k, n, d))
          => /\ metadata'[m].upload_progress = <<Cardinality(DOMAIN latest'[m]), n>>
             /\ FracLeq(metadata[m].upload_progress, metadata'[m].upload_progress)]_vars

(***************************************************************************)
(* C5: when a run of MediaWorker.process_media stores its transcript of    *)
(* the audio asset while no other run is in progress, the transcripts      *)
(* table afterwards holds one row for the key (media asset, provider): a   *)
(* second run updates the row of the first instead of adding one.          *)
(***************************************************************************)
TranscriptsOf(id, provider) ==
    {i \in DOMAIN transcripts :
        transcripts[i].media_asset_id = id /\ transcripts[i].provider = provider}

C5_OneTranscriptPerKey ==
    [][\A r \in Runs :
          (/\ process_audio_create(r) /\ runs'[r].success
           /\ \A q \in Runs \ {r} : runs[q].pc \in {"idle", "returned"})
          => Cardinality(TranscriptsOf("a1", "google")') <= 1]_vars

(***************************************************************************)
(* C6: once a total is recorded for a media id, an upload_chunk with       *)
(* another total or with an index outside 0..total-1 is rejected and       *)
(* stores nothing, and the recorded total never changes.                   *)
(***************************************************************************)
C6_TotalImmutable ==
    [][\A m \in MediaIds :
          /\ \A k \in Indices, n \in Totals : \A d \in ChunkData(k) :
                (/\ Issued(m) /\ upload_chunk(m, k, n, d)
                 /\ metadata[m].total_chunks # 0
                 /\ (n # metadata[m].total_chunks \/ k >= metadata[m].total_chunks))
                => /\ lastCall'.status # "success"
                   /\ chunkFiles'[m] = chunkFiles[m]
                   /\ metadata'[m].chunks = metadata[m].chunks
          /\ metadata[m].total_chunks # 0
                => metadata'[m].total_chunks = metadata[m].total_chunks]_vars

(***************************************************************************)
(* C7: the status of a media id only moves forward along                   *)
(* pending -> processing -> completed | failed.                            *)
(***************************************************************************)
C7_StatusMonotone ==
    [][\A m \in MediaIds :
          StatusRank(metadata'[m].status) >= StatusRank(metadata[m].status)]_vars

(***************************************************************************)
(* C8: after any interleaving of upload_chunk calls (with each other, with *)
(* complete_upload and with the processing task's metadata writes) the     *)
(* chunk map has an entry for every index a call returned for, and each    *)
(* chunk holds the bytes of the last call for its index.                   *)
(***************************************************************************)
C8_NoLostChunkEntry ==
    \A m \in MediaIds :
        /\ DOMAIN metadata[m].chunks = DOMAIN latest[m]
        /\ DOMAIN chunkFiles[m] = DOMAIN latest[m]
        /\ \A k \in DOMAIN latest[m] :
              /\ chunkFiles[m][k] = latest[m][k]
              /\ metadata[m].chunks[k] = Len(latest[m][k])

\* two indices stored, the task of an earlier complete_upload still running
C8_Witness ==
    \E m \in MediaIds :
        /\ lastCall.op = "upload_chunk"
        /\ Cardinality(DOMAIN latest[m]) >= 2
        /\ NumTasks(m) > 0
        /\ metadata[m].progress > 0

(***************************************************************************)
(* C9: an asset that complete_upload moved to processing eventually is     *)
(* completed or failed, the event loop being fair to its task.             *)
(***************************************************************************)
C9_ProcessingEnds ==
    \A m \in MediaIds :
        (metadata[m].status = "processing")
            ~> (metadata[m].status \in {"completed", "failed"})

C9_Witness ==
    \E m \in MediaIds :
        /\ metadata[m].status = "completed"
        /\ metadata[m].result
        /\ NumTasks(m) = 0
        /\ lastCall.op = "_process_media"

(***************************************************************************)
(* C10: a run of process_media whose processing failed (it reported        *)
(* failure; an exception raised inside _process_audio is caught there and  *)
(* reported as failure) ends with the asset failed and an error message    *)
(* recorded on it, and leaves the stored file as it was.                   *)
(***************************************************************************)
C10_FailureRecorded ==
    [][\A r \in Runs :
          (process_media_finish(r) /\ ~runs[r].success /\ runs'[r].pc = "returned")
          => /\ media'.processing_status = "failed"
             /\ media'.error_message # ""
             /\ storedFile' = storedFile]_vars

(***************************************************************************)
(* C11 as stated: every run of process_media whose crud_media.get found    *)
(* the asset makes exactly two status updates, PROCESSING and then the     *)
(* terminal status, COMPLETED after a success and FAILED after a failure.  *)
(***************************************************************************)
StatusesWritten(r) == [i \in DOMAIN runs[r].writes |-> runs[r].writes[i][2]]

C12_ProcessedAtWithTerminalStatus ==
    [][/\ (/\ media'.processing_status \in {"completed", "failed"}
           /\ media'.processing_status # media.processing_status)
          => media'.processed_at
       /\ (media'.processed_at /\ ~media.processed_at)
          => media'.processing_status \in {"completed", "failed"}]_vars

(***************************************************************************)
(* C13: after a complete_upload that succeeded for a media id, no chunk of *)
(* that id is left in the chunk store.                                     *)
(***************************************************************************)
C13_ChunksDeletedOnComplete ==
    [][\A m \in MediaIds, n \in Totals :
          (lastCall'.status = "processing" /\ Issued(m) /\ complete_upload(m, n))
          => DOMAIN chunkFiles'[m] = {}]_vars

(***************************************************************************)
(* C14: a delete_file that answers true leaves no final blob, no chunk and *)
(* no metadata record of the id; and while the id has no record (until the *)
(* id is issued again) no step creates a record, a chunk or a blob for it, *)
(* so get_media_status keeps answering that the media is not found.        *)
(***************************************************************************)
C14_DeleteIsFinal ==
    [][\A m \in MediaIds :
          /\ (lastCall'.op = "delete_file" /\ lastCall'.status = "true" /\ delete_file(m))
             => /\ ~metadata'[m].present
                /\ DOMAIN chunkFiles'[m] = {}
                /\ blobs'[m] = NoBlob
          /\ (~metadata[m].present /\ lastCall'.op # "generate_upload_url")
             => /\ ~metadata'[m].present
                /\ chunkFiles'[m] = chunkFiles[m]
                /\ blobs'[m] = blobs[m]
          /\ (~metadata'[m].present /\ lastCall'.op = "get_media_status")
             => lastCall'.status = "error"]_vars

(***************************************************************************)
(* C15: a complete_upload during which the storage fails (a chunk cannot   *)
(* be read, the final blob cannot be written) leaves the status, the chunk *)
(* map, the stored chunks and the set of tasks as they were; and a         *)
(* complete_upload on a full set of chunks succeeds with the blob made of  *)
(* the chunks in ascending order, whatever a failed attempt left behind.   *)
(***************************************************************************)
C15_StorageErrorKeepsAsset ==
    [][\A m \in MediaIds, n \in Totals :
          /\ (/\ lastCall'.op = "complete_upload_storage_error"
              /\ \E i \in Indices, kind \in FaultKinds :
                     Issued(m) /\ complete_upload_storage_error(m, n, i, kind))
             => /\ lastCall'.status \in {"error", "exception"}
                /\ metadata'[m].status = metadata[m].status
                /\ metadata'[m].chunks = metadata[m].chunks
                /\ chunkFiles'[m] = chunkFiles[m]
                /\ tasks'[m] = tasks[m]
          /\ (DOMAIN latest[m] = 0..(n - 1) /\ Issued(m) /\ complete_upload(m, n))
             => /\ lastCall'.status = "processing"
                /\ blobs'[m] = Ascending(latest[m], 0, n)]_vars

\* the local provider after a failure at chunk 1 of 2: the final file holds
\* chunk 0 only, the asset is still pending with both chunks stored
C15_Witness ==
    \E m \in MediaIds :
        /\ lastCall.op = "complete_upload_storage_error" /\ lastCall.status = "exception"
        /\ backend = "local"
        /\ metadata[m].status = "pending"
        /\ DOMAIN chunkFiles[m] = 0..1 /\ DOMAIN metadata[m].chunks = 0..1
        /\ blobs[m] = chunkFiles[m][0]

(***************************************************************************)
(* C16: upload_chunk, complete_upload and get_media_status for an id that  *)
(* has no metadata record (no upload target was issued for it) answer an   *)
(* error and create no record, no chunk and no blob for the id.            *)
(***************************************************************************)
C16_UnknownIdRejected ==
    [][\A m \in MediaIds :
          (/\ ~metadata[m].present
           /\ lastCall'.op \in {"upload_chunk", "complete_upload", "get_media_status"}
           /\ lastCall'.media_id = m)
          => /\ lastCall'.status = "error"
             /\ ~metadata'[m].present
             /\ chunkFiles'[m] = chunkFiles[m]
             /\ blobs'[m] = blobs[m]]_vars

(***************************************************************************)
(* C17: an endpoint call by a user other than the owner of an issued media *)
(* id leaves the owner's metadata record, chunks and blob of that id       *)
(* unchanged and is not answered from the owner's record.                  *)
(***************************************************************************)
C17_OwnerIsolation ==
    [][\A m \in MediaIds :
          (caller' # Owner /\ Issued(m))
          => /\ metadata'[m] = metadata[m]
             /\ chunkFiles'[m] = chunkFiles[m]
             /\ blobs'[m] = blobs[m]
             /\ lastCall'.status = "elsewhere"]_vars

(***************************************************************************)
(* C18: generate_upload_url answers direct mode (chunk_upload_enabled      *)
(* false) exactly when file_size is strictly below MAX_DIRECT_UPLOAD_SIZE, *)
(* and chunked mode otherwise, also at file_size = MAX_DIRECT_UPLOAD_SIZE. *)
(***************************************************************************)
C18_DirectBelowThreshold ==
    lastCall.op = "generate_upload_url"
        => (~lastCall.chunk_upload_enabled <=> lastCall.file_size < MAX_DIRECT_UPLOAD_SIZE)

(***************************************************************************)
(* C18, as the code has it: generate_upload_url answers direct mode        *)
(* exactly when file_size is at most MAX_DIRECT_UPLOAD_SIZE, and chunked   *)
(* mode when it is strictly above.                                         *)
(***************************************************************************)
C18_DirectUpToThreshold ==
    lastCall.op = "generate_upload_url"
        => (~lastCall.chunk_upload_enabled <=> lastCall.file_size <= MAX_DIRECT_UPLOAD_SIZE)
C18_Witness ==
    /\ lastCall.op = "generate_upload_url"
    /\ lastCall.file_size = MAX_DIRECT_UPLOAD_SIZE
    /\ ~lastCall.chunk_upload_enabled

(***************************************************************************)
(* C19: given the same calls, the local and the object-store provider      *)
(* answer every call with the same status and progress, and after every    *)
(* call their metadata records of every id agree on existence, status,     *)
(* progress, result, chunk map, total_chunks and upload_progress.  (The    *)
(* key naming the final file, file_path or blob_path, is not compared.)    *)
(***************************************************************************)
SameRecord(a, b) == [a EXCEPT !.file_path = FALSE] = [b EXCEPT !.file_path = FALSE]
C19_BackendsEquivalent ==
    pending = NoCall
        => /\ lastCall.op = twin.lastCall.op
           /\ lastCall.status = twin.lastCall.status
           /\ lastCall.progress = twin.lastCall.progress
           /\ \A m \in MediaIds : SameRecord(metadata[m], twin.metadata[m])

(***************************************************************************)
(* C20: within one import job, url or file, no update lowers the progress, *)
(* every progress written lies between 0.0 and 1.0, a job is created with  *)
(* progress 0.0, a completed job has progress 1.0, and a failure leaves    *)
(* the progress where it was.                                              *)
(***************************************************************************)
NonDecreasing(seq) == \A k \in 1..(Len(seq) - 1) : seq[k] <= seq[k + 1]
C20_ImportProgressMonotone ==
    [][\A id \in ImportIds :
          LET old == import_jobs[id]
              new == import_jobs'[id]
          IN  (new # old /\ new.exists)
              => /\ NonDecreasing(new.updates)
                 /\ \A k \in 1..Len(new.updates) : new.updates[k] \in 0..10
                 /\ new.updates[1] = 0
                 /\ new.progress = new.updates[Len(new.updates)]
                 /\ old.exists => new.progress >= old.progress
                 /\ new.status = "completed" => new.progress = 10
                 /\ new.status = "failed" => new.progress = old.progress]_vars
C20_Witness ==
    \E a \in ImportIds :
        /\ import_jobs[a].status = "completed"
        /\ import_jobs[a].import_type = "file"
        /\ import_jobs[a].updates = <<0, 1, 3, 6, 8, 10>>

(***************************************************************************)
(* C21: when the awaited call of an import stage raises out of the stage   *)
(* (extraction, final step), the job becomes failed with an error code of  *)
(* the fixed set and the progress it had; a failed job is never changed    *)
(* again: no step writes its status, progress or error code, and its       *)
(* background function has returned.                                       *)
(***************************************************************************)
ErrorCodes == {"URL_IMPORT_ERROR", "FILE_IMPORT_ERROR", "INTERNAL_ERROR"}
C21_FailureIsTerminal ==
    [][\A id \in ImportIds :
          LET old == import_jobs[id]
              new == import_jobs'[id]
          IN  /\ old.status = "failed" => new = old
              /\ (new # old /\ old.pc \in {"extract", "finish"}
                     /\ \E inp \in StageInputs(old.pc) :
                            /\ inp.outcome # "ok"
                            /\ _process_url_import(id, inp) \/ _process_file_import(id, inp))
                 => new.status = "failed"
              /\ (new.status = "failed" /\ old.status # "failed")
                 => /\ new.error_code \in ErrorCodes
                    /\ new.progress = old.progress
                    /\ new.updates = old.updates
                    /\ new.pc = "done"]_vars
C21_Witness ==
    \E id \in ImportIds :
        /\ import_jobs[id].status = "failed"
        /\ import_jobs[id].error_code = "INTERNAL_ERROR"
        /\ import_jobs[id].progress = 8
        /\ import_jobs[id].pc = "done"

(***************************************************************************)
(* C22: when the AI title generation of an import job fails, the title     *)
(* stage leaves the job with the default title obtained at extraction and  *)
(* does not make it failed: the job goes on to its final step.             *)
(***************************************************************************)
TitleGenerationFails(id, old) ==
    \E inp \in StageInputs("title") :
        /\ inp.auto_title /\ old.text_len > 0 /\ inp.ai # "title"
        /\ _process_url_import(id, inp) \/ _process_file_import(id, inp)
C22_TitleFailureKeepsDefault ==
    [][\A id \in ImportIds :
          LET old == import_jobs[id]
              new == import_jobs'[id]
          IN  (new # old /\ old.pc = "title" /\ TitleGenerationFails(id, old))
              => /\ new.title = "default"
                 /\ new.status = "processing"
                 /\ new.pc = "finish"]_vars
(***************************************************************************)
(* C23: get_import_result answers a result (200) only for a completed job  *)
(* and rejects the query for a pending, processing or failed job; for a    *)
(* completed job its owner is answered the job's title and pages, and a    *)
(* completed job is never changed, so every later query of the owner is    *)
(* answered the same title and pages.                                      *)
(***************************************************************************)
C23_ResultOnlyWhenCompleted ==
    [][\A id \in ImportIds :
          LET old == import_jobs[id]
              new == import_jobs'[id]
          IN  /\ old.status = "completed" => new = old
              /\ \A u \in Users :
                    (import_answer' # import_answer /\ get_import_result(id, u))
                    => /\ import_answer'.code = 200
                          => old.status = "completed" /\ old.user_id = u
                       /\ old.status \in {"pending", "processing", "failed"}
                          => import_answer'.code \in {400, 403}
                       /\ (old.status = "completed" /\ old.user_id = u)
                          => import_answer' = [code |-> 200, title |-> old.title,
                                               pages |-> old.pages]
                       /\ (old.status \in {"pending", "processing", "failed"}
                              /\ old.user_id = u)
                          => import_answer' = [NoAnswer EXCEPT !.code = 400]]_vars
C23_Witness ==
    \E id \in ImportIds :
        /\ import_jobs[id].status = "completed"
        /\ import_jobs[id].title = "ai"
        /\ import_jobs[id].pages = <<page_limit, 1>>
        /\ import_answer = [code |-> 200, title |-> "ai", pages |-> <<page_limit, 1>>]
C25_ChunksWithinLimit ==
    returned => \A k \in 1..Len(text_chunks) : Len(text_chunks[k]) <= max_chars

(***************************************************************************)
(* C26: for every text longer than max_chars, the chunks returned by       *)
(* _split_into_chunks, concatenated in order, reproduce the text when the  *)
(* separators (white space: blank lines, line feeds, spaces) are ignored   *)
(* on both sides: no other character is lost, duplicated or moved.         *)
(***************************************************************************)
RECURSIVE Concatenation(_)
Concatenation(seqs) ==
    IF seqs = <<>> THEN <<>> ELSE Head(seqs) \o Concatenation(Tail(seqs))
WithoutSeparators(s) == SelectSeq(s, LAMBDA c : ~IsSpace(c))
C26_ChunksReproduceText ==
    (returned /\ Len(split_text) > max_chars)
    => WithoutSeparators(Concatenation(text_chunks)) = WithoutSeparators(split_text)
(***************************************************************************)
(* C27 as stated: create_media_asset publishes exactly one message on      *)
(* topic media-new for the new asset, with its media_id, media_type,       *)
(* storage_path and the caller's user_id, if and only if Pub/Sub is        *)
(* enabled and the type is processable; otherwise it publishes none.       *)
(* Published is read as: the message reached the topic.                    *)
(***************************************************************************)
DeliveredFor(msgs, id) ==
    {k \in 1..Len(msgs) : msgs[k].media_id = id /\ msgs[k].delivered}
HandedFor(msgs, id) == {k \in 1..Len(msgs) : msgs[k].media_id = id}
C29_CompletedMeansDone ==
    (lastCall.op = "get_media_status" /\ lastCall.status = "completed")
    => (lastCall.progress = total_steps /\ lastCall.result)
(***************************************************************************)
(* C30: a complete_upload call that answers an error leaves the finalized  *)
(* blob of the media id as it was: the same bytes if there was one, none   *)
(* if there was none.                                                      *)
(***************************************************************************)
C30_FailedCompleteKeepsBlob ==
    [][\A m \in MediaIds, t \in Totals :
          (lastCall' # lastCall /\ complete_upload(m, t) /\ lastCall'.status = "error")
          => blobs'[m] = blobs[m]]_vars
====
